---- MODULE Spec2Model ----
(***************************************************************************)
(* One invocation of a OneOps Ansible module (oneops_component,            *)
(* oneops_transition_platform or oneops_cloud_info).  The remote OneOps    *)
(* API is the environment: every remote call is one step whose answer is   *)
(* chosen nondeterministically (a value, or a failure).  Every step also   *)
(* carries the local code that runs until the next remote call.            *)
(***************************************************************************)
EXTENDS Integers, Sequences, FiniteSets, TLC

VARIABLES
    module_name,    \* which module file is being run
    params_state,   \* module.params[<resource>]['state']
    check_mode,     \* module.check_mode
    pc,             \* position of the invocation
    state,          \* the result dict `state` (changed, component/platform/cloud)
    old_component,  \* local of ensure_component
    component,      \* local of delete_component
    release,        \* local of commit_latest_design_release
    calls,          \* log of the remote calls issued so far, in order
    outcome         \* how the invocation ended

vars == <<module_name, params_state, check_mode, pc, state, old_component,
          component, release, calls, outcome>>

----------------------------------------------------------------------------
(* Bounds of the model *)

\* attribute and relationship values are drawn from 1..MaxVal
MaxVal == 2
\* release ids are drawn from 1..MaxReleaseId
MaxReleaseId == 2

----------------------------------------------------------------------------
(* Python dicts: functions from a finite set of keys *)

EmptyDict == [k \in {} |-> 0]

Dicts(K, V) == UNION {[S -> V] : S \in SUBSET K}

\* dict.pop(key, None): remove the key when present
pop(d, key) == [k \in (DOMAIN d) \ {key} |-> d[k]]

Values == 1..MaxVal

\* keys whose value is itself a dict
NestedKeys == {"ciAttributes"}

\* A RemoteResource: identity, attributes and the server-derived relationship
\* fields dependents / dependsOn, each of which may be missing (0 = missing).
MkResource(attrs, deps, on) ==
    [k \in {"ciId", "ciAttributes"}
           \cup (IF deps = 0 THEN {} ELSE {"dependents"})
           \cup (IF on = 0 THEN {} ELSE {"dependsOn"}) |->
        CASE k = "ciId" -> 1
          [] k = "ciAttributes" -> attrs
          [] k = "dependents" -> deps
          [] k = "dependsOn" -> on]

RemoteResources ==
    {MkResource(a, d, o) : a \in Dicts({"description"}, Values),
                           d \in 0..MaxVal, o \in 0..MaxVal}

\* dict_transformations.recursive_diff: the keys on which the two dicts differ
\* (a key of one only, or a common key with different values, nested dicts
\* compared recursively).  The empty set stands for the result None.
recursive_diff(dict1, dict2) ==
    LET left   == (DOMAIN dict1) \ (DOMAIN dict2)
        right  == (DOMAIN dict2) \ (DOMAIN dict1)
        common == (DOMAIN dict1) \cap (DOMAIN dict2)
        inner(a, b) == ((DOMAIN a) \ (DOMAIN b)) \cup ((DOMAIN b) \ (DOMAIN a))
                       \cup {k \in (DOMAIN a) \cap (DOMAIN b) : a[k] # b[k]}
    IN  left \cup right
        \cup {k \in common : IF k \in NestedKeys
                             THEN inner(dict1[k], dict2[k]) # {}
                             ELSE dict1[k] # dict2[k]}

None == {}

----------------------------------------------------------------------------
(* Inputs of one invocation *)

Modules == {"oneops_component", "oneops_transition_platform", "oneops_cloud_info"}

AllStates == {"present", "absent", "enabled", "disabled", "restarted"}

\* oneops_cloud_info takes no state parameter
NoState == "n/a"

\* Faulty variant of state_choices: the argument spec declares `state` as a
\* plain string without choices, so every value is accepted
state_choices_unconstrained(m) ==
    AllStates \cup {NoState}

\* module_argument_spec: the values the argument spec accepts for `state`
state_choices(m) ==
    CASE m = "oneops_component" -> {"present", "absent"}
      [] m = "oneops_transition_platform" -> {"enabled", "disabled"}
      [] OTHER -> {NoState}

----------------------------------------------------------------------------
(* The log of remote calls *)

Call(op, ok, val, ret, note) ==
    [op |-> op, ok |-> ok, val |-> val, ret |-> ret, note |-> note]

Mutating == {"upsert", "delete", "enable", "disable", "commit"}

\* answers of the collaborator
ExistsAnswers == {"true", "false", "error"}
ResourceAnswers ==
    {[ok |-> TRUE, value |-> r] : r \in RemoteResources}
    \cup {[ok |-> FALSE, value |-> EmptyDict]}
Releases ==
    {[releaseId |-> i, releaseState |-> s] : i \in 1..MaxReleaseId, s \in {"open", "closed"}}
LatestAnswers ==
    {[kind |-> "release", release |-> r] : r \in Releases}
    \cup {[kind |-> k, release |-> EmptyDict] : k \in {"None", "AttributeError", "error"}}

\* an exception of a remote call that nothing catches ends the invocation
Raise ==
    /\ pc' = "done"
    /\ outcome' = "error"

\* module.exit_json(**state)
exit_json ==
    /\ pc' = "done"
    /\ outcome' = "exit_json"

\* AnsibleModule(...) rejecting the parameters: module.fail_json(msg=...)
fail_json ==
    /\ pc' = "done"
    /\ outcome' = "fail_json"

----------------------------------------------------------------------------
Init ==
    /\ \E m \in Modules :
          /\ module_name = m
          /\ params_state \in (IF m = "oneops_cloud_info" THEN {NoState} ELSE AllStates)
    /\ check_mode \in BOOLEAN
    /\ pc = "start"
    /\ state = [changed |-> FALSE, resource |-> EmptyDict]
    /\ old_component = EmptyDict
    /\ component = EmptyDict
    /\ release = EmptyDict
    /\ calls = <<>>
    /\ outcome = "running"

----------------------------------------------------------------------------
(* oneops_component *)

\* get_oneops_component_module: AnsibleModule(argument_spec=...) validates the
\* parameters against the argument spec; TRUE when they are accepted
get_oneops_component_module ==
    params_state \in state_choices("oneops_component")

\* run_module: seed the result, build the module, dispatch on the state
run_module_component ==
    /\ module_name = "oneops_component"
    /\ pc = "start"
    /\ state' = [changed |-> FALSE, resource |-> EmptyDict]
    /\ IF ~get_oneops_component_module
         THEN fail_json
         ELSE IF params_state = "present"
           THEN pc' = "ensure.exists" /\ outcome' = outcome
           ELSE IF params_state = "absent"
             THEN pc' = "delete.exists" /\ outcome' = outcome
             ELSE IF check_mode THEN exit_json ELSE exit_json
    /\ UNCHANGED <<module_name, params_state, check_mode, old_component,
                   component, release, calls>>

\* ensure_component, up to the answer of OneOpsComponent.exists
ensure_component_exists ==
    /\ pc = "ensure.exists"
    /\ old_component' = EmptyDict
    /\ \E ans \in ExistsAnswers :
          /\ calls' = Append(calls, Call("exists", ans # "error",
                                         IF ans = "true" THEN 1 ELSE 0, EmptyDict, ans))
          /\ CASE ans = "error" -> Raise
               [] ans = "true"  -> pc' = "ensure.get" /\ outcome' = outcome
               [] ans = "false" -> pc' = "ensure.upsert" /\ outcome' = outcome
    /\ UNCHANGED <<module_name, params_state, check_mode, state, component, release>>

\* ensure_component: old_component = OneOpsComponent.get(module)
ensure_component_get ==
    /\ pc = "ensure.get"
    /\ \E ans \in ResourceAnswers :
          /\ calls' = Append(calls, Call("get", ans.ok, 0, ans.value, "get"))
          /\ IF ans.ok
               THEN /\ old_component' = ans.value
                    /\ pc' = "ensure.upsert"
                    /\ outcome' = outcome
               ELSE /\ old_component' = old_component
                    /\ Raise
    /\ UNCHANGED <<module_name, params_state, check_mode, state, component, release>>

\* Faulty variant of ensure_component_upsert: the result reports the prior
\* component and compares the dicts by their keys alone
ensure_component_upsert_reports_old ==
    /\ pc = "ensure.upsert"
    /\ \E ans \in ResourceAnswers :
          /\ calls' = Append(calls, Call("upsert", ans.ok, 0, ans.value, "upsert"))
          /\ IF ans.ok
               THEN LET new_component == ans.value
                        popped == pop(pop(old_component, "dependents"), "dependsOn")
                    IN  /\ old_component' = popped
                        /\ state' = [changed |-> DOMAIN popped # DOMAIN new_component,
                                     resource |-> popped]
                        /\ pc' = "commit.latest"
                        /\ outcome' = outcome
               ELSE /\ UNCHANGED <<old_component, state>>
                    /\ Raise
    /\ UNCHANGED <<module_name, params_state, check_mode, component, release>>

\* Faulty variant of ensure_component_upsert: a failure of upsert is caught
\* and the function carries on with an empty new component
ensure_component_upsert_swallows ==
    /\ pc = "ensure.upsert"
    /\ \E ans \in ResourceAnswers :
          /\ calls' = Append(calls, Call("upsert", ans.ok, 0, ans.value, "upsert"))
          /\ LET new_component == ans.value
                 popped == pop(pop(old_component, "dependents"), "dependsOn")
                 diff == recursive_diff(popped, new_component)
             IN  /\ old_component' = popped
                 /\ state' = [changed |-> diff # None, resource |-> new_component]
                 /\ pc' = "commit.latest"
                 /\ outcome' = outcome
    /\ UNCHANGED <<module_name, params_state, check_mode, component, release>>

\* ensure_component: new_component = OneOpsComponent.upsert(module), then the
\* two pops, the diff and state.update(changed=..., component=new_component)
ensure_component_upsert ==
    /\ pc = "ensure.upsert"
    /\ \E ans \in ResourceAnswers :
          /\ calls' = Append(calls, Call("upsert", ans.ok, 0, ans.value, "upsert"))
          /\ IF ans.ok
               THEN LET new_component == ans.value
                        popped == pop(pop(old_component, "dependents"), "dependsOn")
                        diff == recursive_diff(popped, new_component)
                    IN  /\ old_component' = popped
                        /\ state' = [changed |-> diff # None, resource |-> new_component]
                        /\ pc' = "commit.latest"
                        /\ outcome' = outcome
               ELSE /\ UNCHANGED <<old_component, state>>
                    /\ Raise
    /\ UNCHANGED <<module_name, params_state, check_mode, component, release>>

\* Faulty variant of commit_latest_design_release_latest: the releaseState
\* test is missing, every release found is committed
commit_latest_design_release_latest_any_state ==
    /\ pc = "commit.latest"
    /\ \E ans \in LatestAnswers :
          /\ calls' = Append(calls,
                 Call("latest", ans.kind \in {"release", "None"},
                      IF ans.kind = "release" THEN ans.release.releaseId ELSE 0,
                      EmptyDict,
                      IF ans.kind = "release" THEN ans.release.releaseState ELSE ans.kind))
          /\ IF ans.kind = "error"
               THEN /\ UNCHANGED <<release, state>>
                    /\ Raise
               ELSE /\ release' = ans.release
                    /\ IF ans.kind = "release"
                         THEN /\ state' = [state EXCEPT !.changed = TRUE]
                              /\ pc' = "commit.commit"
                              /\ outcome' = outcome
                         ELSE /\ state' = state
                              /\ exit_json
    /\ UNCHANGED <<module_name, params_state, check_mode, old_component, component>>

\* commit_latest_design_release: OneOpsRelease.latest(module) inside the try,
\* then the test of the release; without an open release the function returns
\* and ensure_component exits with the state
commit_latest_design_release_latest ==
    /\ pc = "commit.latest"
    /\ \E ans \in LatestAnswers :
          /\ calls' = Append(calls,
                 Call("latest", ans.kind \in {"release", "None"},
                      IF ans.kind = "release" THEN ans.release.releaseId ELSE 0,
                      EmptyDict,
                      IF ans.kind = "release" THEN ans.release.releaseState ELSE ans.kind))
          /\ IF ans.kind = "error"
               THEN /\ UNCHANGED <<release, state>>
                    /\ Raise
               ELSE /\ release' = ans.release   \* EmptyDict for None
                    /\ IF ans.kind = "release" /\ ans.release.releaseState = "open"
                         THEN /\ state' = [state EXCEPT !.changed = TRUE]
                              /\ pc' = "commit.commit"
                              /\ outcome' = outcome
                         ELSE /\ state' = state
                              /\ exit_json
    /\ UNCHANGED <<module_name, params_state, check_mode, old_component, component>>

\* commit_latest_design_release: OneOpsRelease.commit(module, release['releaseId']),
\* then the return and ensure_component's exit_json
commit_latest_design_release_commit ==
    /\ pc = "commit.commit"
    /\ \E ok \in BOOLEAN :
          /\ calls' = Append(calls, Call("commit", ok, release.releaseId, EmptyDict, "commit"))
          /\ IF ok THEN exit_json ELSE Raise
    /\ UNCHANGED <<module_name, params_state, check_mode, state, old_component,
                   component, release>>

\* delete_component, up to the answer of OneOpsComponent.exists
delete_component_exists ==
    /\ pc = "delete.exists"
    /\ \E ans \in ExistsAnswers :
          /\ calls' = Append(calls, Call("exists", ans # "error",
                                         IF ans = "true" THEN 1 ELSE 0, EmptyDict, ans))
          /\ CASE ans = "error" -> Raise
               [] ans = "true"  -> pc' = "delete.get" /\ outcome' = outcome
               [] ans = "false" -> exit_json
    /\ UNCHANGED <<module_name, params_state, check_mode, state, old_component,
                   component, release>>

\* delete_component: component = OneOpsComponent.get(module)
delete_component_get ==
    /\ pc = "delete.get"
    /\ \E ans \in ResourceAnswers :
          /\ calls' = Append(calls, Call("get", ans.ok, 0, ans.value, "get"))
          /\ IF ans.ok
               THEN /\ component' = ans.value
                    /\ pc' = "delete.delete"
                    /\ outcome' = outcome
               ELSE /\ component' = component
                    /\ Raise
    /\ UNCHANGED <<module_name, params_state, check_mode, state, old_component, release>>

\* Faulty variant of delete_component_delete: the snapshot is not put in the result
delete_component_delete_no_snapshot ==
    /\ pc = "delete.delete"
    /\ \E ok \in BOOLEAN :
          /\ calls' = Append(calls, Call("delete", ok, 0, EmptyDict, "delete"))
          /\ IF ok
               THEN /\ state' = [state EXCEPT !.changed = TRUE]
                    /\ exit_json
               ELSE /\ state' = state
                    /\ Raise
    /\ UNCHANGED <<module_name, params_state, check_mode, old_component, component, release>>

\* delete_component: OneOpsComponent.delete(module), the state.update and exit_json
delete_component_delete ==
    /\ pc = "delete.delete"
    /\ \E ok \in BOOLEAN :
          /\ calls' = Append(calls, Call("delete", ok, 0, EmptyDict, "delete"))
          /\ IF ok
               THEN /\ state' = [changed |-> TRUE, resource |-> component]
                    /\ exit_json
               ELSE /\ state' = state
                    /\ Raise
    /\ UNCHANGED <<module_name, params_state, check_mode, old_component, component, release>>

----------------------------------------------------------------------------
(* oneops_transition_platform *)

\* get_oneops_transition_platform_module: TRUE when the parameters are accepted
get_oneops_transition_platform_module ==
    params_state \in state_choices("oneops_transition_platform")

\* run_module: seed the result, build the module, dispatch on the state
run_module_transition_platform ==
    /\ module_name = "oneops_transition_platform"
    /\ pc = "start"
    /\ state' = [changed |-> FALSE, resource |-> EmptyDict]
    /\ IF ~get_oneops_transition_platform_module
         THEN fail_json
         ELSE IF params_state = "enabled"
           THEN pc' = "enable.exists" /\ outcome' = outcome
           ELSE IF params_state = "disabled"
             THEN pc' = "disable.exists" /\ outcome' = outcome
             ELSE IF check_mode THEN exit_json ELSE exit_json
    /\ UNCHANGED <<module_name, params_state, check_mode, old_component,
                   component, release, calls>>

\* Faulty variant of enable_platform_exists: the answer of exists is not
\* tested, the platform is enabled either way
enable_platform_exists_untested ==
    /\ pc = "enable.exists"
    /\ \E ans \in ExistsAnswers :
          /\ calls' = Append(calls, Call("exists", ans # "error",
                                         IF ans = "true" THEN 1 ELSE 0, EmptyDict, ans))
          /\ IF ans = "error"
               THEN state' = state /\ Raise
               ELSE /\ state' = [state EXCEPT !.changed = TRUE]
                    /\ pc' = "enable.enable"
                    /\ outcome' = outcome
    /\ UNCHANGED <<module_name, params_state, check_mode, old_component,
                   component, release>>

\* enable_platform, up to the answer of OneOpsTransitionPlatform.exists;
\* state.update(changed=True) runs before the enable call is issued
enable_platform_exists ==
    /\ pc = "enable.exists"
    /\ \E ans \in ExistsAnswers :
          /\ calls' = Append(calls, Call("exists", ans # "error",
                                         IF ans = "true" THEN 1 ELSE 0, EmptyDict, ans))
          /\ CASE ans = "error" -> state' = state /\ Raise
               [] ans = "true"  -> /\ state' = [state EXCEPT !.changed = TRUE]
                                   /\ pc' = "enable.enable"
                                   /\ outcome' = outcome
               [] ans = "false" -> state' = state /\ exit_json
    /\ UNCHANGED <<module_name, params_state, check_mode, old_component,
                   component, release>>

\* Faulty variant of enable_platform_enable: the function exits with the
\* state already marked changed, the enable call is never issued
enable_platform_enable_not_issued ==
    /\ pc = "enable.enable"
    /\ exit_json
    /\ UNCHANGED <<module_name, params_state, check_mode, state, old_component,
                   component, release, calls>>

\* enable_platform: OneOpsTransitionPlatform.enable(module), then exit_json
enable_platform_enable ==
    /\ pc = "enable.enable"
    /\ \E ok \in BOOLEAN :
          /\ calls' = Append(calls, Call("enable", ok, 0, EmptyDict, "enable"))
          /\ IF ok THEN exit_json ELSE Raise
    /\ UNCHANGED <<module_name, params_state, check_mode, state, old_component,
                   component, release>>

\* disable_platform, up to the answer of OneOpsTransitionPlatform.exists
disable_platform_exists ==
    /\ pc = "disable.exists"
    /\ \E ans \in ExistsAnswers :
          /\ calls' = Append(calls, Call("exists", ans # "error",
                                         IF ans = "true" THEN 1 ELSE 0, EmptyDict, ans))
          /\ CASE ans = "error" -> state' = state /\ Raise
               [] ans = "true"  -> /\ state' = [state EXCEPT !.changed = TRUE]
                                   /\ pc' = "disable.disable"
                                   /\ outcome' = outcome
               [] ans = "false" -> state' = state /\ exit_json
    /\ UNCHANGED <<module_name, params_state, check_mode, old_component,
                   component, release>>

\* Faulty variant of disable_platform_disable: copied from enable_platform
\* with the call left as enable
disable_platform_disable_calls_enable ==
    /\ pc = "disable.disable"
    /\ \E ok \in BOOLEAN :
          /\ calls' = Append(calls, Call("enable", ok, 0, EmptyDict, "enable"))
          /\ IF ok THEN exit_json ELSE Raise
    /\ UNCHANGED <<module_name, params_state, check_mode, state, old_component,
                   component, release>>

\* disable_platform: OneOpsTransitionPlatform.disable(module), then exit_json
disable_platform_disable ==
    /\ pc = "disable.disable"
    /\ \E ok \in BOOLEAN :
          /\ calls' = Append(calls, Call("disable", ok, 0, EmptyDict, "disable"))
          /\ IF ok THEN exit_json ELSE Raise
    /\ UNCHANGED <<module_name, params_state, check_mode, state, old_component,
                   component, release>>

----------------------------------------------------------------------------
(* oneops_cloud_info *)

\* run_module: seed the result, cloud, _, _ = OneOpsCloud.get(module),
\* state.update(cloud=cloud), exit_json
run_module_cloud_info ==
    /\ module_name = "oneops_cloud_info"
    /\ pc = "start"
    /\ \E ans \in ResourceAnswers :
          /\ calls' = Append(calls, Call("get", ans.ok, 0, ans.value, "get"))
          /\ IF ans.ok
               THEN /\ state' = [changed |-> FALSE, resource |-> ans.value]
                    /\ exit_json
               ELSE /\ state' = [changed |-> FALSE, resource |-> EmptyDict]
                    /\ Raise
    /\ UNCHANGED <<module_name, params_state, check_mode, old_component,
                   component, release>>

----------------------------------------------------------------------------
Next ==
    \/ run_module_component
    \/ ensure_component_exists
    \/ ensure_component_get
    \/ ensure_component_upsert
    \/ commit_latest_design_release_latest
    \/ commit_latest_design_release_commit
    \/ delete_component_exists
    \/ delete_component_get
    \/ delete_component_delete
    \/ run_module_transition_platform
    \/ enable_platform_exists
    \/ enable_platform_enable
    \/ disable_platform_exists
    \/ disable_platform_disable
    \/ run_module_cloud_info

Spec == Init /\ [][Next]_vars

----------------------------------------------------------------------------
(* Helpers of the properties *)

Idx == DOMAIN calls

Count(op) == Cardinality({i \in Idx : calls[i].op = op})

Issued(op) == \E i \in Idx : calls[i].op = op

NoMutatingCall == \A i \in Idx : calls[i].op \notin Mutating

\* exists was asked and answered b
ExistsReturned(b) ==
    \E i \in Idx : calls[i].op = "exists" /\ calls[i].ok /\ calls[i].val = (IF b THEN 1 ELSE 0)

\* a result was reported to the host
Reported == outcome = "exit_json"

TypeOK ==
    /\ module_name \in Modules
    /\ params_state \in AllStates \cup {NoState}
    /\ check_mode \in BOOLEAN
    /\ state.changed \in BOOLEAN
    /\ outcome \in {"running", "exit_json", "fail_json", "error"}
    /\ (pc = "done") = (outcome # "running")
    /\ Len(calls) <= 5

\* the resource returned by get (the prior resource), {} when none was fetched
Fetched ==
    IF \E i \in Idx : calls[i].op = "get" /\ calls[i].ok
      THEN calls[CHOOSE i \in Idx : calls[i].op = "get" /\ calls[i].ok].ret
      ELSE EmptyDict

\* the resource returned by upsert
Upserted ==
    IF \E i \in Idx : calls[i].op = "upsert" /\ calls[i].ok
      THEN calls[CHOOSE i \in Idx : calls[i].op = "upsert" /\ calls[i].ok].ret
      ELSE EmptyDict

StripDerived(d) == pop(pop(d, "dependents"), "dependsOn")

IsComponent == module_name = "oneops_component"
IsTransitionPlatform == module_name = "oneops_transition_platform"

\* a failure of latest that commit_latest_design_release catches
Absorbed(i) == calls[i].op = "latest" /\ calls[i].note = "AttributeError"

----------------------------------------------------------------------------
(* The claims *)

\* C1: in check mode no mutating call (upsert, delete, enable, disable,
\* release commit) is ever issued, whatever the desired state and whatever
\* exists answers.
C1_NoMutationInCheckMode ==
    check_mode => NoMutatingCall

\* C2: a result reported with changed=true was preceded, in the same
\* invocation, by at least one mutating remote call.
C2_ChangedOnlyAfterMutation ==
    (Reported /\ state.changed) => ~NoMutatingCall

C2_Witness ==
    /\ IsTransitionPlatform
    /\ Reported
    /\ state.changed
    /\ Issued("enable")

\* C3: with state=present, when the prior resource and the resource returned
\* by upsert are identical except for dependents and dependsOn, the reported
\* result has changed=false, whatever the release lookup returned.
C3_IdempotentUnchanged ==
    (/\ IsComponent
     /\ params_state = "present"
     /\ Reported
     /\ ExistsReturned(TRUE)
     /\ StripDerived(Fetched) = StripDerived(Upserted))
    => ~state.changed

\* C4: with state=present and exists answering false, exactly one upsert is
\* issued, and the reported result has changed=true and the component that
\* upsert returned.
C4_CreateReportsChanged ==
    (IsComponent /\ params_state = "present" /\ ExistsReturned(FALSE))
    => /\ Count("upsert") <= 1
       /\ (pc # "ensure.upsert" => Count("upsert") = 1)
       /\ ~Issued("get")
       /\ (Reported => state.changed /\ state.resource = Upserted)

C4_Witness ==
    /\ IsComponent
    /\ params_state = "present"
    /\ ExistsReturned(FALSE)
    /\ Reported
    /\ ~Issued("commit")
    /\ state.changed

\* C5: release commit is issued at most once, only with state=present, only
\* after upsert has returned and right after a lookup that returned an open
\* release, with that release's id; and whenever the lookup returned an open
\* release, commit is issued.
C5_CommitIffOpenRelease ==
    /\ Count("commit") <= 1
    /\ \A i \in Idx :
          calls[i].op = "commit" =>
             /\ IsComponent
             /\ params_state = "present"
             /\ i > 1
             /\ calls[i-1].op = "latest"
             /\ calls[i-1].ok
             /\ calls[i-1].note = "open"
             /\ calls[i-1].val = calls[i].val
             /\ \E j \in 1..(i-1) : calls[j].op = "upsert" /\ calls[j].ok
    /\ \A i \in Idx :
          calls[i].op = "latest" =>
             /\ params_state = "present"
             /\ \E j \in 1..(i-1) : calls[j].op = "upsert" /\ calls[j].ok
             /\ (pc = "done" /\ calls[i].note = "open" => Count("commit") = 1)

C5_Witness ==
    /\ pc = "done"
    /\ Issued("commit")
    /\ \E i \in Idx : calls[i].op = "latest" /\ calls[i].note = "open" /\ calls[i].val = MaxReleaseId

\* C6: with state=absent and exists answering true, the resource is fetched
\* before delete is issued, exactly one delete is issued, and the reported
\* result has changed=true and the fetched snapshot as component.
C6_DeleteReportsSnapshot ==
    (IsComponent /\ params_state = "absent")
    => /\ Count("delete") <= 1
       /\ \A i \in Idx :
             calls[i].op = "delete" => \E j \in 1..(i-1) : calls[j].op = "get" /\ calls[j].ok
       /\ (pc = "done" /\ (\E i \in Idx : calls[i].op = "get" /\ calls[i].ok)
           => Count("delete") = 1)
       /\ (Reported /\ ExistsReturned(TRUE)
           => /\ Count("delete") = 1
              /\ state.changed
              /\ state.resource = Fetched)

C6_Witness ==
    /\ IsComponent
    /\ params_state = "absent"
    /\ ExistsReturned(TRUE)
    /\ Reported
    /\ "dependents" \in DOMAIN state.resource

\* C7: for absent (component) and enabled/disabled (transition platform),
\* when exists answers false no mutating call and no get is issued and the
\* result is changed=false with an empty resource.
C7_MissingResourceIsNoOp ==
    (/\ \/ IsComponent /\ params_state = "absent"
        \/ IsTransitionPlatform /\ params_state \in {"enabled", "disabled"}
     /\ ExistsReturned(FALSE))
    => /\ NoMutatingCall
       /\ ~Issued("get")
       /\ Reported
       /\ ~state.changed
       /\ state.resource = EmptyDict

C7_Witness ==
    /\ IsTransitionPlatform
    /\ params_state = "enabled"
    /\ ExistsReturned(FALSE)
    /\ pc = "done"

\* C8: a state outside the module's recognized set ends the invocation as a
\* validation failure without any remote call, never as a successful result.
C8_UnknownStateFails ==
    (\/ IsComponent /\ params_state \notin {"present", "absent"}
     \/ IsTransitionPlatform /\ params_state \notin {"enabled", "disabled"})
    => /\ calls = <<>>
       /\ ~Reported
       /\ (pc = "done" => outcome = "fail_json")

C8_Witness ==
    /\ IsComponent
    /\ params_state = "enabled"
    /\ pc = "done"
    /\ outcome = "fail_json"

\* C9: a failed remote call is the last call of the invocation and the
\* invocation ends as a failure; the one exception is the AttributeError of
\* the latest-release lookup, after which the invocation reports its result
\* without a commit.
C9_FailuresPropagate ==
    /\ \A i \in Idx :
          (~calls[i].ok /\ ~Absorbed(i)) =>
             /\ i = Len(calls)
             /\ pc = "done"
             /\ outcome = "error"
    /\ \A i \in Idx :
          Absorbed(i) =>
             /\ i = Len(calls)
             /\ Reported
    /\ (Reported => \A i \in Idx : calls[i].ok \/ Absorbed(i))

C9_Witness ==
    /\ calls # <<>>
    /\ calls[Len(calls)].op = "upsert"
    /\ ~calls[Len(calls)].ok
    /\ outcome = "error"

\* C10: with enabled (disabled) and exists answering true, exactly one enable
\* (disable) call is issued and never the opposite one, and the reported
\* result has changed=true and an empty platform.
C10_TransitionAlwaysChanged ==
    (IsTransitionPlatform /\ ExistsReturned(TRUE))
    => /\ params_state \in {"enabled", "disabled"}
       /\ LET mine  == IF params_state = "enabled" THEN "enable" ELSE "disable"
              other == IF params_state = "enabled" THEN "disable" ELSE "enable"
          IN  /\ Count(other) = 0
              /\ Count(mine) <= 1
              /\ (pc = "done" => Count(mine) = 1)
       /\ (Reported => state.changed /\ state.resource = EmptyDict)

C10_Witness ==
    /\ IsTransitionPlatform
    /\ params_state = "disabled"
    /\ ExistsReturned(TRUE)
    /\ Reported
    /\ Issued("disable")

====
